---- MODULE Spec2Model ----
(***************************************************************************)
(* Model of the researcher-profile pipeline of src/scripts:                *)
(*   extract_demo.py         (extractor)                                   *)
(*   clean_data.py           (cleaner)                                     *)
(*   tag_to_id_converter.py  (tag resolver)                                *)
(*   json_to_csv_for_pg.py   (flattener)                                   *)
(*                                                                         *)
(* Python text is a sequence of one-character strings.  A JSON value is a  *)
(* record [t, v]: t names the Python type, v holds the value.  A dict that *)
(* the code only reads by key (a profile, a source group) is a function    *)
(* from its keys; a dict whose iteration order the code relies on (a       *)
(* document of source groups) is a sequence of [key, val] entries with     *)
(* distinct keys, in insertion order.                                      *)
(***************************************************************************)
EXTENDS Integers, Sequences, FiniteSets, TLC

VARIABLES
    stage,              \* which files exist: the stage that ran last
    extracted_data,     \* ./output/extracted_data.json (the cleaner's input)
    if_ignore_no_orcid, \* the flag the cleaner ran with
    cleaned_data,       \* ./output/cleaned_data.json
    stats,              \* the cleaner's counters
    index_data,         \* the index document the resolver loaded
    tag_data,           \* ./output/tag_data.json
    academic_products,  \* rows of academic_products.csv, header excluded
    tags_csv,           \* rows of tags.csv, header excluded
    call,               \* a single function call: its name and arguments
    ret,                \* what that call returned
    source_dir,         \* the files of ../tag_data: their names and contents
    files,              \* the paths that exist on disk
    console,            \* what the script that ran last printed
    ended               \* how the script that ran last ended

vars == <<stage, extracted_data, if_ignore_no_orcid, cleaned_data, stats,
          index_data, tag_data, academic_products, tags_csv, call, ret,
          source_dir, files, console, ended>>

----------------------------------------------------------------------------
(* Bounds of the model. *)

\* profiles and empty source files spread over the input document
MaxItems == 3
\* fragments concatenated into a raw orcid value
MaxOrcidFrags == 3
\* characters of a raw email value
MaxEmailLen == 5
\* entries of a raw tag list
MaxTags == 2
\* elements of the array of a source file
MaxFileLen == 4

----------------------------------------------------------------------------
(* JSON values. *)

Str(s) == [t |-> "str", v |-> s]
Null == [t |-> "null", v |-> <<>>]
Lst(l) == [t |-> "list", v |-> l]
Num(n) == [t |-> "int", v |-> n]

IsStr(x) == x.t = "str"
IsNull(x) == x.t = "null"
IsList(x) == x.t = "list"
IsNum(x) == x.t = "int"

\* equality of two JSON values, the type compared first
JEq(a, b) == a.t = b.t /\ a.v = b.v

\* Python truthiness: None, "", [] and 0 are false
Truthy(x) == IF IsNull(x) THEN FALSE
             ELSE IF IsNum(x) THEN x.v # 0
             ELSE x.v # <<>>

----------------------------------------------------------------------------
(* Text. *)

Digits == <<"0", "1", "2", "3", "4", "5", "6", "7", "8", "9">>

IsDigit(c) == \E i \in 1..10 : Digits[i] = c

DigitVal(c) == (CHOOSE i \in 1..10 : Digits[i] = c) - 1

IsSpace(c) == c \in {" ", "\t", "\n"}

SetMin(S) == CHOOSE x \in S : \A y \in S : x <= y

SetMax(S) == CHOOSE x \in S : \A y \in S : y <= x

\* str.strip()
Strip(s) ==
    LET keep == {i \in 1..Len(s) : ~IsSpace(s[i])}
    IN  IF keep = {} THEN <<>> ELSE SubSeq(s, SetMin(keep), SetMax(keep))

\* sub in s
Contains(s, sub) ==
    \E i \in 1..(Len(s) - Len(sub) + 1) : SubSeq(s, i, i + Len(sub) - 1) = sub

\* positions of the character c in s
Places(s, c) == {i \in 1..Len(s) : s[i] = c}

\* s.split(c)[-1]
AfterLast(s, c) ==
    IF Places(s, c) = {} THEN s ELSE SubSeq(s, SetMax(Places(s, c)) + 1, Len(s))

\* s.split(c, 1)[1], for s holding c
AfterFirst(s, c) == SubSeq(s, SetMin(Places(s, c)) + 1, Len(s))

\* s.split(c): the pieces between the occurrences of c
RECURSIVE Split(_, _)
Split(s, c) ==
    IF Places(s, c) = {} THEN <<s>>
    ELSE LET p == SetMin(Places(s, c))
         IN  <<SubSeq(s, 1, p - 1)>> \o Split(SubSeq(s, p + 1, Len(s)), c)

\* sep.join(parts)
RECURSIVE Join(_, _)
Join(parts, sep) ==
    IF parts = <<>> THEN <<>>
    ELSE IF Len(parts) = 1 THEN parts[1]
    ELSE parts[1] \o sep \o Join(Tail(parts), sep)

\* s.replace("\n", " ")
ReplaceNewline(s) == [i \in 1..Len(s) |-> IF s[i] = "\n" THEN " " ELSE s[i]]

\* the decimal digits of a natural number
RECURSIVE NatToStr(_)
NatToStr(n) ==
    IF n < 10 THEN <<Digits[n + 1]>>
    ELSE NatToStr(n \div 10) \o <<Digits[(n % 10) + 1]>>

\* str(n) of an int
IntToStr(n) == IF n < 0 THEN <<"-">> \o NatToStr(-n) ELSE NatToStr(n)

\* str(x) of a JSON value: text, None or an int (the inputs of the model hand
\* no list to str, whose text would be the list's repr)
PyStr(x) ==
    IF IsStr(x) THEN x.v
    ELSE IF IsNull(x) THEN <<"N", "o", "n", "e">>
    ELSE IF IsNum(x) THEN IntToStr(x.v)
    ELSE <<"[", "]">>

\* the number a run of digits writes
RECURSIVE DigitsToNat(_)
DigitsToNat(s) ==
    IF s = <<>> THEN 0
    ELSE 10 * DigitsToNat(SubSeq(s, 1, Len(s) - 1)) + DigitVal(s[Len(s)])

AllDigits(s) == s # <<>> /\ \A i \in 1..Len(s) : IsDigit(s[i])

\* does int(s) succeed: blanks around an optional sign and digits
PyIntOk(s) ==
    LET u == Strip(s)
    IN  /\ u # <<>>
        /\ IF u[1] \in {"+", "-"} THEN AllDigits(Tail(u)) ELSE AllDigits(u)

\* int(s), when it succeeds
PyInt(s) ==
    LET u == Strip(s)
    IN  IF u[1] = "-" THEN 0 - DigitsToNat(Tail(u))
        ELSE IF u[1] = "+" THEN DigitsToNat(Tail(u))
        ELSE DigitsToNat(u)

\* the characters of s that satisfy str.isdigit, in order
RECURSIVE OnlyDigits(_)
OnlyDigits(s) ==
    IF s = <<>> THEN <<>>
    ELSE (IF IsDigit(s[1]) THEN <<s[1]>> ELSE <<>>) \o OnlyDigits(Tail(s))

----------------------------------------------------------------------------
(* Ordered dicts: a sequence of [key, val] entries with distinct keys. *)

HasKey(d, k) == \E i \in 1..Len(d) : d[i].key = k

\* d[k] = val: an existing key keeps its place
DictSet(d, k, val) ==
    IF HasKey(d, k)
    THEN [i \in 1..Len(d) |-> IF d[i].key = k THEN [key |-> k, val |-> val] ELSE d[i]]
    ELSE Append(d, [key |-> k, val |-> val])

\* dict.get(k, default) of a dict modelled as a function
Get(f, k, default) == IF k \in DOMAIN f THEN f[k] ELSE default

----------------------------------------------------------------------------
(* clean_data.py: the field cleaners. *)

StandardKeys ==
    {"website", "full_name", "title", "org_unit", "telephone", "email",
     "introduction", "orcid", "tag"}

standard_fields ==
    [k \in StandardKeys |-> IF k = "tag" THEN Lst(<<>>) ELSE Str(<<>>)]

\* the stripped text of the truthy items of a list
RECURSIVE StrippedItems(_)
StrippedItems(l) ==
    IF l = <<>> THEN <<>>
    ELSE (IF Truthy(l[1]) THEN <<Strip(PyStr(l[1]))>> ELSE <<>>)
         \o StrippedItems(Tail(l))

clean_string_field(value) ==
    IF IsNull(value) THEN <<>>
    ELSE IF IsList(value) THEN Join(StrippedItems(value.v), <<";", " ">>)
    ELSE Strip(PyStr(value))

\* the stripped text of the non-empty string items of a list
RECURSIVE StrippedPhones(_)
StrippedPhones(l) ==
    IF l = <<>> THEN <<>>
    ELSE (IF Truthy(l[1]) /\ IsStr(l[1]) THEN <<Strip(l[1].v)>> ELSE <<>>)
         \o StrippedPhones(Tail(l))

clean_telephone_field(value) ==
    IF IsNull(value) THEN <<>>
    ELSE IF IsList(value) THEN Join(StrippedPhones(value.v), <<";", " ">>)
    ELSE Strip(PyStr(value))

\* a plausible slip: the text after the first "@" is searched for the "."
clean_email_field_first_at(value) ==
    IF IsNull(value) THEN <<>>
    ELSE LET email == Strip(PyStr(value))
         IN  IF Contains(email, <<"@">>)
                /\ Contains(AfterFirst(email, "@"), <<".">>)
             THEN email
             ELSE <<>>

clean_email_field(value) ==
    IF IsNull(value) THEN <<>>
    ELSE LET email == Strip(PyStr(value))
         IN  IF Contains(email, <<"@">>)
                /\ Contains(AfterLast(email, "@"), <<".">>)
             THEN email
             ELSE <<>>

\* \d{4}-\d{4}-\d{4}-\d{3}[\dX] matches s from position i on
OrcidAt(s, i) ==
    /\ i >= 1
    /\ i + 18 <= Len(s)
    /\ \A k \in 0..18 :
          IF k \in {4, 9, 14} THEN s[i + k] = "-"
          ELSE IF k = 18 THEN IsDigit(s[i + k]) \/ s[i + k] = "X"
          ELSE IsDigit(s[i + k])

\* re.search of the pattern: is there a match
OrcidFound(s) == \E i \in 1..Len(s) : OrcidAt(s, i)

\* re.search of the pattern: group 1 of the leftmost match
OrcidSearch(s) ==
    LET p == SetMin({i \in 1..Len(s) : OrcidAt(s, i)})
    IN  SubSeq(s, p, p + 18)

\* re.match of ^pattern$: "$" also matches before one final newline
OrcidFullMatch(s) ==
    /\ OrcidAt(s, 1)
    /\ \/ Len(s) = 19
       \/ Len(s) = 20 /\ s[20] = "\n"

\* a plausible slip: the fallback is taken whatever the flag says
clean_orcid_field_always_fallback(value, email_value, use_email_fallback) ==
    LET orcid == Strip(IF IsNull(value) THEN <<>> ELSE PyStr(value))
    IN  IF Contains(orcid, <<"o", "r", "c", "i", "d", ".", "o", "r", "g">>)
           /\ OrcidFound(orcid)
        THEN [orcid |-> OrcidSearch(orcid), is_real_orcid |-> TRUE]
        ELSE IF ~Contains(orcid, <<"o", "r", "c", "i", "d", ".", "o", "r", "g">>)
                /\ OrcidFullMatch(orcid)
        THEN [orcid |-> orcid, is_real_orcid |-> TRUE]
        ELSE IF Truthy(email_value)
        THEN [orcid |-> Strip(PyStr(email_value)), is_real_orcid |-> FALSE]
        ELSE [orcid |-> <<>>, is_real_orcid |-> FALSE]

clean_orcid_field(value, email_value, use_email_fallback) ==
    LET orcid == Strip(IF IsNull(value) THEN <<>> ELSE PyStr(value))
    IN  IF Contains(orcid, <<"o", "r", "c", "i", "d", ".", "o", "r", "g">>)
           /\ OrcidFound(orcid)
        THEN [orcid |-> OrcidSearch(orcid), is_real_orcid |-> TRUE]
        ELSE IF ~Contains(orcid, <<"o", "r", "c", "i", "d", ".", "o", "r", "g">>)
                /\ OrcidFullMatch(orcid)
        THEN [orcid |-> orcid, is_real_orcid |-> TRUE]
        ELSE IF use_email_fallback /\ Truthy(email_value)
        THEN [orcid |-> Strip(PyStr(email_value)), is_real_orcid |-> FALSE]
        ELSE [orcid |-> <<>>, is_real_orcid |-> FALSE]

\* the loop of clean_tag_field over the tag groups
RECURSIVE CleanTagGroups(_)
CleanTagGroups(l) ==
    IF l = <<>> THEN <<>>
    ELSE LET tag_group == l[1]
             category == Strip(PyStr(tag_group.v[1]))
             subcategories == Strip(PyStr(tag_group.v[2]))
         IN  (IF IsList(tag_group) /\ Len(tag_group.v) >= 2
                 /\ category # <<>> /\ subcategories # <<>>
              THEN <<Lst(<<Str(category), Str(subcategories)>>)>>
              ELSE <<>>)
             \o CleanTagGroups(Tail(l))

clean_tag_field(value) ==
    IF IsNull(value) THEN Lst(<<>>)
    ELSE IF ~IsList(value) THEN Lst(<<>>)
    ELSE Lst(CleanTagGroups(value.v))

\* where the match of r"\s+tag$" ends: at the end of s, or just before one
\* final newline (0: "tag" is not there)
TagSuffixEnd(s) ==
    IF Len(s) >= 3 /\ SubSeq(s, Len(s) - 2, Len(s)) = <<"t", "a", "g">>
    THEN Len(s)
    ELSE IF Len(s) >= 4 /\ s[Len(s)] = "\n"
            /\ SubSeq(s, Len(s) - 3, Len(s) - 1) = <<"t", "a", "g">>
    THEN Len(s) - 1
    ELSE 0

\* where the leftmost match of r"\s+tag$" starts (0: no match)
TagSuffixStart(s) ==
    LET e == TagSuffixEnd(s)
        starts == {i \in 1..(e - 3) : \A j \in i..(e - 3) : IsSpace(s[j])}
    IN  IF starts = {} THEN 0 ELSE SetMin(starts)

normalize_university_key(name) ==
    LET p == TagSuffixStart(name)
        e == TagSuffixEnd(name)
    IN  IF p = 0 THEN Strip(name)
        ELSE Strip(SubSeq(name, 1, p - 1) \o SubSeq(name, e + 1, Len(name)))

----------------------------------------------------------------------------
(* clean_data.py: a profile, then the whole document. *)

\* the value field_mappings gives the output field, or its default
CleanedField(profile, output_field) ==
    LET field == IF output_field = "introduction" THEN "brief_introduction"
                 ELSE output_field
    IN  IF field \notin DOMAIN profile THEN standard_fields[output_field]
        ELSE IF output_field = "tag" THEN clean_tag_field(profile[field])
        ELSE IF output_field = "email" THEN Str(clean_email_field(profile[field]))
        ELSE IF output_field = "telephone"
        THEN Str(clean_telephone_field(profile[field]))
        ELSE IF output_field \in {"introduction", "org_unit"}
        THEN Str(ReplaceNewline(clean_string_field(profile[field])))
        ELSE Str(clean_string_field(profile[field]))

standardize_researcher_profile(profile, use_email_fallback) ==
    LET email_val == CleanedField(profile, "email")
        orcid_val == Get(profile, "orcid", Null)
        cleaned == clean_orcid_field(orcid_val, email_val, use_email_fallback)
    IN  [profile |-> [k \in StandardKeys |->
                         IF k = "orcid" THEN Str(cleaned.orcid)
                         ELSE CleanedField(profile, k)],
         is_real_orcid |-> cleaned.is_real_orcid]

\* is the cleaned profile skipped
SkipProfile(ignore_no_orcid, cleaned) ==
    IF ignore_no_orcid THEN ~cleaned.is_real_orcid
    ELSE ~Truthy(cleaned.profile["orcid"])

\* the loop over the extracted items of one source group: the profiles kept
RECURSIVE CleanProfiles(_, _)
CleanProfiles(items, ignore_no_orcid) ==
    IF items = <<>> THEN <<>>
    ELSE LET cleaned == standardize_researcher_profile(items[1], ~ignore_no_orcid)
         IN  (IF SkipProfile(ignore_no_orcid, cleaned) THEN <<>>
              ELSE <<cleaned.profile>>)
             \o CleanProfiles(Tail(items), ignore_no_orcid)

\* a plausible slip: a source group is written whether or not a profile is left
KeepGroup_always(profiles) == TRUE

\* is the source group written to the output
KeepGroup(profiles) == Len(profiles) > 0

\* the loop over the source groups: acc holds cleaned_data and the counters
RECURSIVE CleanGroups(_, _, _)
CleanGroups(data, ignore_no_orcid, acc) ==
    IF data = <<>> THEN acc
    ELSE LET university_key == data[1].key
             university_data == data[1].val
         IN  IF "extracted_items" \notin DOMAIN university_data
             THEN CleanGroups(Tail(data), ignore_no_orcid, acc)
             ELSE LET items == university_data["extracted_items"]
                      profiles == CleanProfiles(items, ignore_no_orcid)
                      university_cleaned ==
                          [total_items |-> Get(university_data, "total_items", Num(0)),
                           profiles |-> profiles]
                  IN  CleanGroups(Tail(data), ignore_no_orcid,
                          [cleaned_data |->
                               IF KeepGroup(profiles)
                               THEN DictSet(acc.cleaned_data,
                                            normalize_university_key(university_key),
                                            university_cleaned)
                               ELSE acc.cleaned_data,
                           total_profiles |-> acc.total_profiles + Len(items),
                           cleaned_profiles |-> acc.cleaned_profiles + Len(profiles),
                           skipped_profiles |->
                               acc.skipped_profiles + Len(items) - Len(profiles)])

clean_and_standardize_data(data, ignore_no_orcid) ==
    CleanGroups(data, ignore_no_orcid,
                [cleaned_data |-> <<>>, total_profiles |-> 0,
                 cleaned_profiles |-> 0, skipped_profiles |-> 0])

----------------------------------------------------------------------------
(* tag_to_id_converter.py *)

\* the subcategories of every category of the index, in file order
RECURSIVE AllSubcategories(_)
AllSubcategories(index) ==
    IF index = <<>> THEN <<>>
    ELSE index[1].subcategories \o AllSubcategories(Tail(index))

\* the dict a loop of d[e.name] = e.id builds: the last entry of a name wins
NameToId(entries) ==
    [n \in {entries[i].name : i \in 1..Len(entries)} |->
        entries[SetMax({i \in 1..Len(entries) : entries[i].name = n})].id]

load_index(index) ==
    [category_map |-> NameToId(index),
     subcategory_map |-> NameToId(AllSubcategories(index))]

\* the stripped pieces that are not empty
RECURSIVE StrippedNonEmpty(_)
StrippedNonEmpty(pieces) ==
    IF pieces = <<>> THEN <<>>
    ELSE (IF Strip(pieces[1]) # <<>> THEN <<Strip(pieces[1])>> ELSE <<>>)
         \o StrippedNonEmpty(Tail(pieces))

\* a plausible slip: the names are not stripped
parse_subcategories_unstripped(subcategory_string) ==
    IF subcategory_string = <<>> THEN <<>>
    ELSE SelectSeq(Split(subcategory_string, ","), LAMBDA x : x # <<>>)

parse_subcategories(subcategory_string) ==
    IF subcategory_string = <<>> THEN <<>>
    ELSE StrippedNonEmpty(Split(subcategory_string, ","))

\* the ids of the names the subcategory map knows, in order
RECURSIVE SubcategoryIds(_, _)
SubcategoryIds(subcategory_names, subcategory_map) ==
    IF subcategory_names = <<>> THEN <<>>
    ELSE (IF subcategory_names[1] \in DOMAIN subcategory_map
          THEN <<subcategory_map[subcategory_names[1]]>>
          ELSE <<>>)
         \o SubcategoryIds(Tail(subcategory_names), subcategory_map)

RECURSIVE convert_tag_to_ids(_, _)
convert_tag_to_ids(tag_entry, maps) ==
    IF tag_entry = <<>> THEN <<>>
    ELSE LET category_subcategory_pair == tag_entry[1].v
             category_name == Strip(category_subcategory_pair[1].v)
             subcategory_string == Strip(category_subcategory_pair[2].v)
         IN  (IF Len(category_subcategory_pair) # 2 THEN <<>>
              ELSE IF category_name \notin DOMAIN maps.category_map THEN <<>>
              ELSE <<[tag_id |-> maps.category_map[category_name],
                      sub_id |-> Lst(SubcategoryIds(
                                        parse_subcategories(subcategory_string),
                                        maps.subcategory_map))]>>)
             \o convert_tag_to_ids(Tail(tag_entry), maps)

\* is the profile skipped for its empty email
SkipEmptyEmail(profile) ==
    /\ "email" \in DOMAIN profile
    /\ \/ JEq(profile["email"], Str(<<>>))
       \/ IsNull(profile["email"])

\* the processed copy of a profile that is kept
ResolveProfile(profile, maps) ==
    IF "tag" \in DOMAIN profile /\ Truthy(profile["tag"])
    THEN [k \in (DOMAIN profile \cup {"tags"}) \ {"tag"} |->
             IF k = "tags" THEN Lst(convert_tag_to_ids(profile["tag"].v, maps))
             ELSE profile[k]]
    ELSE [k \in DOMAIN profile \cup {"tags"} |->
             IF k = "tags" THEN Lst(<<>>) ELSE profile[k]]

\* the loop over the profiles of one source
RECURSIVE ResolveProfiles(_, _)
ResolveProfiles(profiles, maps) ==
    IF profiles = <<>> THEN <<>>
    ELSE (IF SkipEmptyEmail(profiles[1]) THEN <<>>
          ELSE <<ResolveProfile(profiles[1], maps)>>)
         \o ResolveProfiles(Tail(profiles), maps)

\* the loop over the sources: acc holds processed_data
RECURSIVE ResolveSources(_, _, _)
ResolveSources(data, maps, acc) ==
    IF data = <<>> THEN acc
    ELSE LET source_name == data[1].key
             source_data == data[1].val
             processed_profiles ==
                 ResolveProfiles(Get(source_data, "profiles", <<>>), maps)
             processed_source ==
                 [total_items |-> Get(source_data, "total_items", Num(0)),
                  profiles |-> processed_profiles]
         IN  ResolveSources(Tail(data), maps,
                 IF Len(processed_profiles) > 0
                 THEN DictSet(acc, source_name, processed_source)
                 ELSE acc)

process_researcher_data(data, index) ==
    ResolveSources(data, load_index(index), <<>>)

----------------------------------------------------------------------------
(* json_to_csv_for_pg.py *)

extract_orcid(profile) ==
    LET value == Get(profile, "orcid", Null)
    IN  IF IsNull(value) THEN <<>> ELSE Strip(PyStr(value))

build_profiles_json(profile, organization) ==
    LET kept == DOMAIN profile \ {"orcid", "introduction", "tags"}
    IN  IF organization # <<>>
        THEN [k \in kept \cup {"organization"} |->
                 IF k = "organization" THEN Str(organization) ELSE profile[k]]
        ELSE [k \in kept |-> profile[k]]

parse_sub_id_to_int(sub_id_value) ==
    LET s == Strip(PyStr(sub_id_value))
        digits == OnlyDigits(s)
    IN  IF Contains(s, <<".">>) /\ PyIntOk(AfterFirst(s, "."))
        THEN PyInt(AfterFirst(s, "."))
        ELSE IF PyIntOk(s) THEN PyInt(s)
        ELSE IF digits # <<>> THEN DigitsToNat(digits)
        ELSE 0

\* can int(tag_id) be taken
TagIdOk(tag_id) ==
    IF IsNull(tag_id) THEN FALSE
    ELSE IF IsNum(tag_id) THEN TRUE
    ELSE IF IsStr(tag_id) THEN PyIntOk(tag_id.v)
    ELSE FALSE

\* int(tag_id)
TagIdInt(tag_id) == IF IsNum(tag_id) THEN tag_id.v ELSE PyInt(tag_id.v)

\* the tags rows of one tag entry: one per element of sub_id, written as text
SubRows(orcid, tag_id_int, sub_ids) ==
    [i \in 1..Len(sub_ids) |->
        [orcid |-> orcid, tag_id |-> tag_id_int, sub_id |-> PyStr(sub_ids[i])]]

\* the loop over the tag entries of one profile
RECURSIVE TagRows(_, _)
TagRows(orcid, tags_list) ==
    IF tags_list = <<>> THEN <<>>
    ELSE LET tag_entry == tags_list[1]
             tag_id == Get(tag_entry, "tag_id", Null)
             sub_raw == Get(tag_entry, "sub_id", Lst(<<>>))
             sub_ids == IF Truthy(sub_raw) THEN sub_raw.v ELSE <<>>
         IN  (IF TagIdOk(tag_id) THEN SubRows(orcid, TagIdInt(tag_id), sub_ids)
              ELSE <<>>)
             \o TagRows(orcid, Tail(tags_list))

\* the loop over the profiles of one source: acc holds the rows of both files
RECURSIVE FlattenProfiles(_, _, _)
FlattenProfiles(profiles, source_name, acc) ==
    IF profiles = <<>> THEN acc
    ELSE LET profile == profiles[1]
             orcid == extract_orcid(profile)
             tags_raw == Get(profile, "tags", Lst(<<>>))
             tags_list == IF Truthy(tags_raw) THEN tags_raw.v ELSE <<>>
         IN  FlattenProfiles(Tail(profiles), source_name,
                 IF orcid = <<>> THEN acc
                 ELSE [products |->
                           Append(acc.products,
                                  [orcid |-> orcid,
                                   profiles |-> build_profiles_json(profile, source_name),
                                   introduction |-> Get(profile, "introduction", Str(<<>>))]),
                       tags |-> acc.tags \o TagRows(orcid, tags_list)])

\* the loop over the sources
RECURSIVE FlattenSources(_, _)
FlattenSources(data, acc) ==
    IF data = <<>> THEN acc
    ELSE FlattenSources(Tail(data),
             FlattenProfiles(Get(data[1].val, "profiles", <<>>), data[1].key, acc))

process(data) == FlattenSources(data, [products |-> <<>>, tags |-> <<>>])

----------------------------------------------------------------------------
(* extract_demo.py *)

\* the number of items taken from a source file
EXTRACT_COUNT == 3

\* The content of a source file is a record [kind, items]: kind "array" for
\* a JSON array of the items, "object" and "null" for another JSON value,
\* "malformed" for text json.load rejects.

JsonSuffix == <<".", "j", "s", "o", "n">>

EndsWith(s, suffix) ==
    /\ Len(s) >= Len(suffix)
    /\ SubSeq(s, Len(s) - Len(suffix) + 1, Len(s)) = suffix

\* tag_data_dir.glob("*.json"): the files of the directory the pattern matches
glob_json(dir) == SelectSeq(dir, LAMBDA f : EndsWith(f.name, JsonSuffix))

\* json_file.stem of a name the pattern matched
Stem(name) ==
    IF Len(name) > Len(JsonSuffix)
    THEN SubSeq(name, 1, Len(name) - Len(JsonSuffix))
    ELSE name

\* isinstance(data, list)
IsArray(data) == data.kind = "array"

\* a plausible slip: the whole array is taken
first_five_unsliced(data) == IF IsArray(data) THEN data.items ELSE <<>>

\* data[:EXTRACT_COUNT] if isinstance(data, list) else []
first_five(data) ==
    IF IsArray(data)
    THEN SubSeq(data.items, 1,
                IF Len(data.items) < EXTRACT_COUNT THEN Len(data.items)
                ELSE EXTRACT_COUNT)
    ELSE <<>>

\* len(data) if isinstance(data, list) else 0
TotalItems(data) == IF IsArray(data) THEN Len(data.items) ELSE 0

\* the loop over the JSON files: a file json.load rejects is reported and
\* left out, every other file gets its entry in combined_data
RECURSIVE ExtractFiles(_, _)
ExtractFiles(json_files, combined_data) ==
    IF json_files = <<>> THEN combined_data
    ELSE LET json_file == json_files[1]
             data == json_file.content
         IN  IF data.kind = "malformed"
             THEN ExtractFiles(Tail(json_files), combined_data)
             ELSE ExtractFiles(Tail(json_files),
                      DictSet(combined_data, Stem(json_file.name),
                              [source_file |-> Str(json_file.name),
                               total_items |-> Num(TotalItems(data)),
                               extracted_items |-> first_five(data)]))

----------------------------------------------------------------------------
(* The input documents. *)

OrcidUrl ==
    <<"h", "t", "t", "p", "s", ":", "/", "/", "o", "r", "c", "i", "d", ".",
      "o", "r", "g", "/">>

OrcidA ==
    <<"0", "0", "0", "0", "-", "0", "0", "0", "1", "-", "2", "3", "4", "5",
      "-", "6", "7", "8", "9">>

OrcidX ==
    <<"0", "0", "0", "0", "-", "0", "0", "0", "2", "-", "1", "8", "2", "5",
      "-", "0", "0", "9", "X">>

\* the names of the source files
SourceKeys == << <<"M", "I", "T">>, <<"M", "I", "T", " ", "t", "a", "g">>, <<"U", "Q">> >>

\* raw profiles, as the source files hold them
RawProfiles ==
    << \* an ORCID URL, an email, two tag pairs
       [full_name |-> Str(<<"A", "n", "n">>),
        email |-> Str(<<"a", "@", "b", ".", "c">>),
        orcid |-> Str(OrcidUrl \o OrcidA),
        brief_introduction |-> Str(<<"h", "i", "\n", "a", "l", "l">>),
        tag |-> Lst(<< Lst(<<Str(<<"A", "I">>),
                             Str(<<"M", "L", ",", " ", "N", "L", "P">>)>>),
                       Lst(<<Str(<<"B", "i", "o">>), Str(<<"G", "e", "n">>)>>) >>)],
       \* no ORCID, an email, no tag key
       [full_name |-> Str(<<"B", "o", "b">>),
        email |-> Str(<<" ", "x", "@", "y", ".", "c", "o">>),
        orcid |-> Str(<<"n", "/", "a">>)],
       \* a bare ORCID, an email, an empty tag list
       [full_name |-> Str(<<"C", "y">>),
        email |-> Str(<<"c", "@", "d", ".", "e">>),
        orcid |-> Str(<<" ">> \o OrcidX),
        tag |-> Lst(<<>>)],
       \* the first ORCID again, bare, with an invalid email
       [full_name |-> Null,
        email |-> Str(<<"b", "a", "d">>),
        orcid |-> Str(OrcidA),
        telephone |-> Lst(<<Str(<<"1">>), Null, Str(<<" ", "2">>)>>)] >>

\* profiles of a cleaned_data.json handed to the resolver directly
SuppliedProfiles ==
    << [full_name |-> Str(<<"A", "n", "n">>),
        email |-> Str(<<"a", "@", "b", ".", "c">>),
        orcid |-> Str(OrcidA),
        tag |-> Lst(<< Lst(<<Str(<<"A", "I">>), Str(<<"M", "L">>)>>) >>)],
       [full_name |-> Str(<<"B", "o", "b">>),
        email |-> Str(<<>>),
        orcid |-> Str(OrcidX),
        tag |-> Lst(<<>>)],
       [full_name |-> Str(<<"C", "y">>),
        email |-> Null,
        orcid |-> Str(OrcidX)],
       [full_name |-> Str(<<"D", "i">>),
        orcid |-> Str(OrcidX),
        tag |-> Lst(<<>>)] >>

\* an item <<k, p>> puts profile p (0: none) into the source file of key k
ItemSeqs(n_profiles) ==
    UNION {[1..n -> (1..Len(SourceKeys)) \X (0..n_profiles)] : n \in 0..MaxItems}

\* the profiles the items put under key k, in order
RECURSIVE ItemsOf(_, _, _)
ItemsOf(items, k, profiles) ==
    IF items = <<>> THEN <<>>
    ELSE (IF items[1][1] = k /\ items[1][2] # 0
          THEN <<profiles[items[1][2]]>> ELSE <<>>)
         \o ItemsOf(Tail(items), k, profiles)

\* the keys the items name, in order of first appearance
RECURSIVE KeyOrder(_, _)
KeyOrder(items, seen) ==
    IF items = <<>> THEN <<>>
    ELSE IF items[1][1] \in seen THEN KeyOrder(Tail(items), seen)
    ELSE <<items[1][1]>> \o KeyOrder(Tail(items), seen \cup {items[1][1]})

\* no source file gives more items than the extractor takes
WithinExtractCount(items) ==
    \A k \in 1..Len(SourceKeys) :
        Len(SelectSeq(items, LAMBDA it : it[1] = k /\ it[2] # 0)) <= EXTRACT_COUNT

\* an extracted_data.json: each source file's entry as the extractor writes it
ExtractedDoc(items) ==
    LET order == KeyOrder(items, {})
    IN  [i \in 1..Len(order) |->
            [key |-> SourceKeys[order[i]],
             val |-> [source_file |->
                          Str(SourceKeys[order[i]] \o <<".", "j", "s", "o", "n">>),
                      total_items |->
                          Num(Len(ItemsOf(items, order[i], RawProfiles))),
                      extracted_items |-> ItemsOf(items, order[i], RawProfiles)]]]

\* a cleaned_data.json written by hand
SuppliedDoc(items) ==
    LET order == KeyOrder(items, {})
    IN  [i \in 1..Len(order) |->
            [key |-> SourceKeys[order[i]],
             val |-> [total_items |->
                          Num(Len(ItemsOf(items, order[i], SuppliedProfiles))),
                      profiles |-> ItemsOf(items, order[i], SuppliedProfiles)]]]

\* index documents: integer ids, and dotted subcategory ids
Indexes ==
    << << [id |-> Num(3), name |-> <<"A", "I">>,
           subcategories |->
               << [id |-> Num(1), name |-> <<"M", "L">>],
                  [id |-> Num(2), name |-> <<"N", "L", "P">>] >>] >>,
       << [id |-> Num(8), name |-> <<"A", "I">>,
           subcategories |->
               << [id |-> Str(<<"8", ".", "1">>), name |-> <<"M", "L">>],
                  [id |-> Str(<<"8", ".", "2">>), name |-> <<"N", "L", "P">>] >>],
          [id |-> Str(<<"9">>), name |-> <<"B", "i", "o">>,
           subcategories |->
               << [id |-> Str(<<"9", ".", "1">>), name |-> <<"G", "e", "n">>] >>] >> >>

----------------------------------------------------------------------------
(* The pipeline: the cleaner, the tag resolver and the flattener, each run  *)
(* to completion on the file the stage before it wrote.                     *)

NoStats == [total_profiles |-> 0, cleaned_profiles |-> 0, skipped_profiles |-> 0]

NoCall == [fn |-> "none", args |-> <<>>]

\* the paths the scripts name
TagDataDir == "../tag_data"
ExtractedFile == "./output/extracted_data.json"
CleanedFile == "./output/cleaned_data.json"
IndexFile == "../index/index_en.json"
TagDataFile == "./output/tag_data.json"
ProductsCsv == "./output/academic_products.csv"
TagsCsv == "./output/tags.csv"

NotRun == [script |-> "none", how |-> "not run"]

\* a plausible slip: the script goes on without looking for its input
InputExists_unchecked(path) == TRUE

\* Path(path).exists(), and open(path) not raising FileNotFoundError
InputExists(path) == path \in files

\* extract_demo.py: extract_data returns after a report when the directory is
\* missing or holds no JSON file, and writes extracted_data.json otherwise
extract_data ==
    /\ ended' = [script |-> "extract_demo", how |-> "returned"]
    /\ IF ~InputExists(TagDataDir)
       THEN /\ console' = <<"Error: ../tag_data directory not found!">>
            /\ UNCHANGED <<extracted_data, files>>
       ELSE IF glob_json(source_dir) = <<>>
       THEN /\ console' = <<"No JSON files found in ../tag_data">>
            /\ UNCHANGED <<extracted_data, files>>
       ELSE /\ extracted_data' = ExtractFiles(glob_json(source_dir), <<>>)
            /\ files' = files \cup {ExtractedFile}
            /\ console' = <<"Successfully created ./output/extracted_data.json">>

\* clean_data.py: main returns after a report when extracted_data.json is
\* missing, and clean_and_standardize_data writes cleaned_data.json otherwise
clean_data_main(flag) ==
    /\ ended' = [script |-> "clean_data", how |-> "returned"]
    /\ if_ignore_no_orcid' = flag
    /\ IF ~InputExists(ExtractedFile)
       THEN /\ console' = <<"Input file './output/extracted_data.json' not found!">>
            /\ UNCHANGED <<cleaned_data, stats, files>>
       ELSE LET out == clean_and_standardize_data(extracted_data, flag)
            IN  /\ cleaned_data' = out.cleaned_data
                /\ stats' = [total_profiles |-> out.total_profiles,
                             cleaned_profiles |-> out.cleaned_profiles,
                             skipped_profiles |-> out.skipped_profiles]
                /\ files' = files \cup {CleanedFile}
                /\ console' = <<"Successfully cleaned and standardized data!">>

\* tag_to_id_converter.py: load_index and process_researcher_data leave with
\* sys.exit(1) after a report when their file is missing; index is the
\* document the index file holds
tag_to_id_converter_main(index) ==
    IF ~InputExists(IndexFile)
    THEN /\ console' = <<"Error: Index file '../index/index_en.json' not found.">>
         /\ ended' = [script |-> "tag_to_id_converter", how |-> "sys.exit(1)"]
         /\ UNCHANGED <<index_data, tag_data, files>>
    ELSE /\ index_data' = index
         /\ IF ~InputExists(CleanedFile)
            THEN /\ console' = <<"Error: Input file './output/cleaned_data.json' not found.">>
                 /\ ended' = [script |-> "tag_to_id_converter", how |-> "sys.exit(1)"]
                 /\ UNCHANGED <<tag_data, files>>
            ELSE /\ tag_data' = process_researcher_data(cleaned_data, index)
                 /\ files' = files \cup {TagDataFile}
                 /\ console' = <<"Processing complete!">>
                 /\ ended' = [script |-> "tag_to_id_converter", how |-> "returned"]

\* json_to_csv_for_pg.py: main returns after a report when tag_data.json is
\* missing, and process writes the two CSV files otherwise
json_to_csv_main ==
    /\ ended' = [script |-> "json_to_csv_for_pg", how |-> "returned"]
    /\ IF ~InputExists(TagDataFile)
       THEN /\ console' = <<"Input file './output/tag_data.json' not found!">>
            /\ UNCHANGED <<academic_products, tags_csv, files>>
       ELSE LET out == process(tag_data)
            IN  /\ academic_products' = out.products
                /\ tags_csv' = out.tags
                /\ files' = files \cup {ProductsCsv, TagsCsv}
                /\ console' = <<"Done.">>

Init ==
    /\ stage = "extracted"
    /\ \E items \in ItemSeqs(Len(RawProfiles)) :
          /\ WithinExtractCount(items)
          /\ extracted_data = ExtractedDoc(items)
    /\ if_ignore_no_orcid = TRUE
    /\ cleaned_data = <<>>
    /\ stats = NoStats
    /\ index_data = <<>>
    /\ tag_data = <<>>
    /\ academic_products = <<>>
    /\ tags_csv = <<>>
    /\ call = NoCall
    /\ ret = <<>>
    /\ source_dir = <<>>
    /\ files = {TagDataDir, ExtractedFile, IndexFile}
    /\ console = <<>>
    /\ ended = NotRun

\* clean_data.py run on extracted_data.json, in strict or in lenient mode
RunCleaner ==
    /\ stage = "extracted"
    /\ \E flag \in BOOLEAN : clean_data_main(flag)
    /\ stage' = "cleaned"
    /\ UNCHANGED <<extracted_data, index_data, tag_data, academic_products,
                   tags_csv, call, ret, source_dir>>

\* tag_to_id_converter.py run on cleaned_data.json with one of the indexes
RunResolver ==
    /\ stage = "cleaned"
    /\ \E i \in 1..Len(Indexes) : tag_to_id_converter_main(Indexes[i])
    /\ stage' = "resolved"
    /\ UNCHANGED <<extracted_data, if_ignore_no_orcid, cleaned_data, stats,
                   academic_products, tags_csv, call, ret, source_dir>>

\* json_to_csv_for_pg.py run on tag_data.json
RunFlattener ==
    /\ stage = "resolved"
    /\ json_to_csv_main
    /\ stage' = "flattened"
    /\ UNCHANGED <<extracted_data, if_ignore_no_orcid, cleaned_data, stats,
                   index_data, tag_data, call, ret, source_dir>>

Next == RunCleaner \/ RunResolver \/ RunFlattener

Spec == Init /\ [][Next]_vars

\* the resolver run on a cleaned_data.json that was written by hand
InitResolver ==
    /\ stage = "cleaned"
    /\ \E items \in ItemSeqs(Len(SuppliedProfiles)) :
          cleaned_data = SuppliedDoc(items)
    /\ extracted_data = <<>>
    /\ if_ignore_no_orcid = TRUE
    /\ stats = NoStats
    /\ index_data = <<>>
    /\ tag_data = <<>>
    /\ academic_products = <<>>
    /\ tags_csv = <<>>
    /\ call = NoCall
    /\ ret = <<>>
    /\ source_dir = <<>>
    /\ files = {CleanedFile, IndexFile}
    /\ console = <<>>
    /\ ended = NotRun

NextResolver == RunResolver \/ RunFlattener

SpecResolver == InitResolver /\ [][NextResolver]_vars

----------------------------------------------------------------------------
(* The extractor run on a source directory whose files are drawn from      *)
(* bounded sets.                                                           *)

\* the items the source arrays are made of
ItemChoices == <<RawProfiles[1], RawProfiles[2]>>

ArrayCodes == UNION {[1..n -> 1..Len(ItemChoices)] : n \in 0..MaxFileLen}

\* what a source file can hold
FileContents ==
    {[kind |-> "array", items |-> [i \in 1..Len(code) |-> ItemChoices[code[i]]]] :
        code \in ArrayCodes}
    \cup {[kind |-> k, items |-> <<>>] : k \in {"object", "null", "malformed"}}

\* stands for a file that is not in the directory
NoFile == [kind |-> "absent", items |-> <<>>]

\* a file that is not JSON
TextFile == [kind |-> "malformed", items |-> <<>>]

\* the files that are in the directory
Listing(entries) == SelectSeq(entries, LAMBDA f : f.content.kind # "absent")

InitExtract ==
    /\ stage = "source"
    /\ \/ /\ files = {TagDataDir}
          /\ \E a \in FileContents \cup {NoFile}, b \in FileContents \cup {NoFile},
                c \in {NoFile, TextFile} :
                source_dir =
                    Listing(<< [name |-> <<"M", "I", "T", ".", "j", "s", "o", "n">>,
                                content |-> a],
                               [name |-> <<"n", "o", "t", "e", "s", ".", "t", "x", "t">>,
                                content |-> c],
                               [name |-> <<"U", "Q", ".", "j", "s", "o", "n">>,
                                content |-> b] >>)
       \/ /\ files = {}
          /\ source_dir = <<>>
    /\ extracted_data = <<>>
    /\ if_ignore_no_orcid = TRUE
    /\ cleaned_data = <<>>
    /\ stats = NoStats
    /\ index_data = <<>>
    /\ tag_data = <<>>
    /\ academic_products = <<>>
    /\ tags_csv = <<>>
    /\ call = NoCall
    /\ ret = <<>>
    /\ console = <<>>
    /\ ended = NotRun

\* extract_demo.py run on the source directory
RunExtractor ==
    /\ stage = "source"
    /\ extract_data
    /\ stage' = "extracted"
    /\ UNCHANGED <<if_ignore_no_orcid, cleaned_data, stats, index_data, tag_data,
                   academic_products, tags_csv, call, ret, source_dir>>

NextExtract == RunExtractor

SpecExtract == InitExtract /\ [][NextExtract]_vars

----------------------------------------------------------------------------
(* The four scripts run one at a time, in any order, on a disk where any   *)
(* of the files may be missing and any output may be left from before.     *)

AllPaths ==
    {TagDataDir, ExtractedFile, CleanedFile, IndexFile, TagDataFile,
     ProductsCsv, TagsCsv}

NotesFile ==
    [name |-> <<"n", "o", "t", "e", "s", ".", "t", "x", "t">>, content |-> TextFile]

\* a source directory: an array longer than EXTRACT_COUNT, a short array,
\* a malformed file and a file that is not JSON
HandDir ==
    << [name |-> <<"M", "I", "T", ".", "j", "s", "o", "n">>,
        content |-> [kind |-> "array", items |-> RawProfiles]],
       [name |-> <<"U", "Q", ".", "j", "s", "o", "n">>,
        content |-> [kind |-> "array", items |-> <<RawProfiles[2]>>]],
       [name |-> <<"b", "a", "d", ".", "j", "s", "o", "n">>,
        content |-> [kind |-> "malformed", items |-> <<>>]],
       NotesFile >>

\* what the source directory can hold
SourceDirs == {HandDir, <<NotesFile>>, <<>>}

\* the files an earlier run left
StaleExtracted == ExtractedDoc(<< <<3, 2>> >>)
StaleCleaned == SuppliedDoc(<< <<1, 1>>, <<3, 4>> >>)
StaleTagData == process_researcher_data(StaleCleaned, Indexes[1])
StaleCsv == process(StaleTagData)

InitFiles ==
    /\ stage = "scripts"
    /\ files \in SUBSET AllPaths
    /\ source_dir \in (IF TagDataDir \in files THEN SourceDirs ELSE {<<>>})
    /\ extracted_data = (IF ExtractedFile \in files THEN StaleExtracted ELSE <<>>)
    /\ cleaned_data = (IF CleanedFile \in files THEN StaleCleaned ELSE <<>>)
    /\ tag_data = (IF TagDataFile \in files THEN StaleTagData ELSE <<>>)
    /\ academic_products = (IF ProductsCsv \in files THEN StaleCsv.products ELSE <<>>)
    /\ tags_csv = (IF TagsCsv \in files THEN StaleCsv.tags ELSE <<>>)
    /\ if_ignore_no_orcid = TRUE
    /\ stats = NoStats
    /\ index_data = <<>>
    /\ call = NoCall
    /\ ret = <<>>
    /\ console = <<>>
    /\ ended = NotRun

ExtractorScript ==
    /\ extract_data
    /\ UNCHANGED <<stage, if_ignore_no_orcid, cleaned_data, stats, index_data,
                   tag_data, academic_products, tags_csv, call, ret, source_dir>>

CleanerScript ==
    /\ \E flag \in BOOLEAN : clean_data_main(flag)
    /\ UNCHANGED <<stage, extracted_data, index_data, tag_data, academic_products,
                   tags_csv, call, ret, source_dir>>

ResolverScript ==
    /\ \E i \in 1..Len(Indexes) : tag_to_id_converter_main(Indexes[i])
    /\ UNCHANGED <<stage, extracted_data, if_ignore_no_orcid, cleaned_data, stats,
                   academic_products, tags_csv, call, ret, source_dir>>

FlattenerScript ==
    /\ json_to_csv_main
    /\ UNCHANGED <<stage, extracted_data, if_ignore_no_orcid, cleaned_data, stats,
                   index_data, tag_data, call, ret, source_dir>>

NextFiles == ExtractorScript \/ CleanerScript \/ ResolverScript \/ FlattenerScript

SpecFiles == InitFiles /\ [][NextFiles]_vars

----------------------------------------------------------------------------
(* Single calls of the field functions, on inputs drawn from bounded sets. *)

EmailAlphabet == <<"a", "@", ".", " ">>

\* the text a sequence of letter numbers spells
EmailText(code) == [i \in 1..Len(code) |-> EmailAlphabet[code[i]]]

EmailCodes == UNION {[1..n -> 1..Len(EmailAlphabet)] : n \in 0..MaxEmailLen}

OrcidFrags ==
    << <<"o", "r", "c", "i", "d", ".", "o", "r", "g", "/">>,
       OrcidA, OrcidX, <<"7">>, <<" ">>, <<"\n">>, <<"x">> >>

\* the text a sequence of fragment numbers spells
RECURSIVE OrcidText(_)
OrcidText(code) ==
    IF code = <<>> THEN <<>>
    ELSE OrcidFrags[code[1]] \o OrcidText(Tail(code))

OrcidCodes == UNION {[1..n -> 1..Len(OrcidFrags)] : n \in 0..MaxOrcidFrags}

\* raw email values of a profile; number 0 stands for a profile without the key
EmailChoices ==
    << Null,
       Str(<<>>),
       Str(<<"a", "@", "b", ".", "c">>),
       Str(<<" ", "x", "@", "y", ".", "z", " ">>),
       Str(<<"b", "a", "d">>) >>

\* the email part of a raw profile
EmailPart(e) == IF e = 0 THEN <<>> ELSE [k \in {"email"} |-> EmailChoices[e]]

\* raw tag groups
TagGroupChoices ==
    << Lst(<<Str(<<"A", "I">>), Str(<<"M", "L">>)>>),
       Lst(<<Str(<<"A", "I">>), Str(<<"M", "L">>), Str(<<"x">>)>>),
       Lst(<<Str(<<" ", "A", "I", " ">>), Str(<<"M", "L", ",", " ", "N", "L", "P">>)>>),
       Lst(<<Str(<<"A", "I">>)>>),
       Lst(<<>>),
       Lst(<<Str(<<>>), Str(<<"M", "L">>)>>),
       Lst(<<Str(<<"A", "I">>), Str(<<>>)>>),
       Lst(<<Str(<<" ">>), Str(<<"M", "L">>)>>),
       Lst(<<Null, Str(<<"M", "L">>)>>),
       Str(<<"A", "I">>) >>

TagCodes == UNION {[1..n -> 1..Len(TagGroupChoices)] : n \in 0..MaxTags}

\* tag entries handed to convert_tag_to_ids
PairChoices ==
    << Lst(<<Str(<<"A", "I">>), Str(<<"M", "L", ",", " ", "N", "L", "P">>)>>),
       Lst(<<Str(<<"A", "I">>), Str(<<"N", "L", "P", ",", "z", "z", " ", ",", "M", "L">>)>>),
       Lst(<<Str(<<"A", "I">>), Str(<<" ", ",", " ">>)>>),
       Lst(<<Str(<<"A", "I">>), Str(<<>>)>>),
       Lst(<<Str(<<"A", "I">>), Str(<<"G", "e", "n">>)>>),
       Lst(<<Str(<<" ", "A", "I", " ">>), Str(<<"M", "L">>)>>),
       Lst(<<Str(<<"B", "i", "o">>), Str(<<"G", "e", "n", ",", "M", "L">>)>>),
       Lst(<<Str(<<"Z", "o", "o">>), Str(<<"M", "L">>)>>),
       Lst(<<Str(<<"A", "I">>), Str(<<"M", "L">>), Str(<<"x">>)>>),
       Lst(<<Str(<<"A", "I">>)>>) >>

PairCodes == UNION {[1..n -> 1..Len(PairChoices)] : n \in 0..MaxTags}

InitFn ==
    /\ stage = "call"
    /\ \/ \E code \in EmailCodes :
             call = [fn |-> "clean_email_field", args |-> <<Str(EmailText(code))>>]
       \/ call = [fn |-> "clean_email_field", args |-> <<Null>>]
       \/ \E code \in OrcidCodes, e \in 0..Len(EmailChoices), fallback \in BOOLEAN :
             call = [fn |-> "standardize_researcher_profile",
                     args |-> <<[k \in {"orcid"} |-> Str(OrcidText(code))] @@ EmailPart(e),
                                fallback>>]
       \/ \E o \in {"null", "absent"}, e \in 0..Len(EmailChoices), fallback \in BOOLEAN :
             call = [fn |-> "standardize_researcher_profile",
                     args |-> <<(IF o = "null" THEN [k \in {"orcid"} |-> Null] ELSE <<>>)
                                    @@ EmailPart(e),
                                fallback>>]
       \/ \E code \in TagCodes :
             call = [fn |-> "clean_tag_field",
                     args |-> <<Lst([i \in 1..Len(code) |-> TagGroupChoices[code[i]]])>>]
       \/ \E x \in {"null", "str"} :
             call = [fn |-> "clean_tag_field",
                     args |-> <<IF x = "null" THEN Null ELSE Str(<<"A", "I">>)>>]
       \/ \E code \in PairCodes, i \in 1..Len(Indexes) :
             call = [fn |-> "convert_tag_to_ids",
                     args |-> <<[j \in 1..Len(code) |-> PairChoices[code[j]]],
                                Indexes[i]>>]
    /\ ret = <<>>
    /\ extracted_data = <<>>
    /\ if_ignore_no_orcid = TRUE
    /\ cleaned_data = <<>>
    /\ stats = NoStats
    /\ index_data = <<>>
    /\ tag_data = <<>>
    /\ academic_products = <<>>
    /\ tags_csv = <<>>
    /\ source_dir = <<>>
    /\ files = {}
    /\ console = <<>>
    /\ ended = NotRun

Returns(fn, value) ==
    /\ stage = "call"
    /\ call.fn = fn
    /\ ret' = value
    /\ stage' = "returned"
    /\ UNCHANGED <<extracted_data, if_ignore_no_orcid, cleaned_data, stats,
                   index_data, tag_data, academic_products, tags_csv, call,
                   source_dir, files, console, ended>>

CallCleanEmail ==
    Returns("clean_email_field", clean_email_field(call.args[1]))

CallStandardize ==
    Returns("standardize_researcher_profile",
            standardize_researcher_profile(call.args[1], call.args[2]))

CallCleanTag ==
    Returns("clean_tag_field", clean_tag_field(call.args[1]))

CallConvertTags ==
    Returns("convert_tag_to_ids",
            convert_tag_to_ids(call.args[1], load_index(call.args[2])))

NextFn == CallCleanEmail \/ CallStandardize \/ CallCleanTag \/ CallConvertTags

SpecFn == InitFn /\ [][NextFn]_vars

----------------------------------------------------------------------------
(* What the claims speak of. *)

\* four-digit groups separated by "-", the last character a digit or X
ValidOrcid(s) ==
    /\ Len(s) = 19
    /\ \A i \in 1..19 :
          IF i \in {5, 10, 15} THEN s[i] = "-"
          ELSE IF i = 19
          THEN s[i] \in {"0", "1", "2", "3", "4", "5", "6", "7", "8", "9", "X"}
          ELSE s[i] \in {"0", "1", "2", "3", "4", "5", "6", "7", "8", "9"}

\* the ORCIDs written somewhere in s
EmbeddedOrcids(s) ==
    {SubSeq(s, i, i + 18) :
        i \in {j \in 1..(Len(s) - 18) : ValidOrcid(SubSeq(s, j, j + 18))}}

HasOrcidOrg(s) ==
    \E i \in 1..(Len(s) - 8) :
        SubSeq(s, i, i + 8) = <<"o", "r", "c", "i", "d", ".", "o", "r", "g">>

\* the trimmed text of the raw orcid value of a profile
RawOrcidText(profile) ==
    IF "orcid" \in DOMAIN profile /\ IsStr(profile["orcid"])
    THEN Strip(profile["orcid"].v)
    ELSE <<>>

\* the raw profile carries a valid ORCID, bare or in an orcid.org URL
RawHasOrcid(profile) ==
    \/ ValidOrcid(RawOrcidText(profile))
    \/ HasOrcidOrg(RawOrcidText(profile)) /\ EmbeddedOrcids(RawOrcidText(profile)) # {}

\* the number of profiles of a source group that carry a valid ORCID
OrcidCount(group) ==
    Len(SelectSeq(group["extracted_items"], RawHasOrcid))

CleanerRan == stage \in {"cleaned", "resolved", "flattened"}

ResolverRan == stage \in {"resolved", "flattened"}

FlattenerRan == stage = "flattened"

\* C1: in strict mode every profile of the cleaner output has a valid ORCID,
\* and a source group none of whose profiles has one is not in the output:
\* an output entry under its normalized key is the entry of another group.
C1_StrictOutput ==
    (CleanerRan /\ if_ignore_no_orcid) =>
        /\ \A i \in 1..Len(cleaned_data) :
              \A j \in 1..Len(cleaned_data[i].val.profiles) :
                 LET orcid == cleaned_data[i].val.profiles[j]["orcid"]
                 IN  IsStr(orcid) /\ ValidOrcid(orcid.v)
        /\ \A g \in 1..Len(extracted_data) :
              OrcidCount(extracted_data[g].val) = 0 =>
                 \A i \in 1..Len(cleaned_data) :
                    cleaned_data[i].key = normalize_university_key(extracted_data[g].key) =>
                       \E h \in 1..Len(extracted_data) :
                          /\ h # g
                          /\ normalize_university_key(extracted_data[h].key)
                                = cleaned_data[i].key
                          /\ OrcidCount(extracted_data[h].val) > 0
                          /\ Len(cleaned_data[i].val.profiles)
                                = OrcidCount(extracted_data[h].val)

\* C1 witness: strict mode dropped a group whose profiles have no ORCID though
\* one of them has a usable email, and kept another group
C1_Witness ==
    /\ stage = "cleaned"
    /\ if_ignore_no_orcid
    /\ Len(cleaned_data) > 0
    /\ \E g \in 1..Len(extracted_data) :
          /\ OrcidCount(extracted_data[g].val) = 0
          /\ \E j \in 1..Len(extracted_data[g].val["extracted_items"]) :
                LET profile == extracted_data[g].val["extracted_items"][j]
                IN  "email" \in DOMAIN profile
                    /\ clean_email_field(profile["email"]) # <<>>
          /\ ~HasKey(cleaned_data, normalize_university_key(extracted_data[g].key))

\* the arguments of the call of standardize_researcher_profile
CallOrcidText == RawOrcidText(call.args[1])

CallEmail ==
    IF "email" \in DOMAIN call.args[1]
    THEN clean_email_field(call.args[1]["email"])
    ELSE <<>>

StandardizeReturned ==
    stage = "returned" /\ call.fn = "standardize_researcher_profile"

\* C2: the orcid of the standardized profile and is_real_orcid are: an ORCID
\* embedded in the value and True when the value holds "orcid.org" and an
\* ORCID; the trimmed value and True when it is an ORCID; else the normalized
\* email and False in lenient mode when that email is not empty; else "" and
\* False.  is_real_orcid is True exactly when the orcid returned is an ORCID.
C2_OrcidField ==
    StandardizeReturned =>
        LET orcid == ret.profile["orcid"].v
            real == ret.is_real_orcid
        IN  /\ IF HasOrcidOrg(CallOrcidText) /\ EmbeddedOrcids(CallOrcidText) # {}
               THEN orcid \in EmbeddedOrcids(CallOrcidText) /\ real
               ELSE IF ValidOrcid(CallOrcidText)
               THEN orcid = CallOrcidText /\ real
               ELSE IF call.args[2] /\ CallEmail # <<>>
               THEN orcid = CallEmail /\ ~real
               ELSE orcid = <<>> /\ ~real
            /\ real <=> ValidOrcid(orcid)

\* C2 witness: lenient mode fell back to the email of a profile whose orcid
\* value is not empty and holds no ORCID
C2_Witness ==
    /\ StandardizeReturned
    /\ call.args[2]
    /\ CallOrcidText # <<>>
    /\ ~ret.is_real_orcid
    /\ ret.profile["orcid"].v = <<"x", "@", "y", ".", "z">>

\* the rows of tags.csv the conversion rule gives one tag entry
ClaimedSubRows(orcid, tag_id_int, sub_ids) ==
    [i \in 1..Len(sub_ids) |->
        [orcid |-> orcid, tag_id |-> tag_id_int,
         sub_id |-> IntToStr(parse_sub_id_to_int(sub_ids[i]))]]

RECURSIVE ClaimedEntryRows(_, _)
ClaimedEntryRows(orcid, tags_list) ==
    IF tags_list = <<>> THEN <<>>
    ELSE (IF TagIdOk(tags_list[1].tag_id)
          THEN ClaimedSubRows(orcid, TagIdInt(tags_list[1].tag_id),
                              tags_list[1].sub_id.v)
          ELSE <<>>)
         \o ClaimedEntryRows(orcid, Tail(tags_list))

\* the profiles of a document, each with the name of its source group
RECURSIVE FlatProfiles(_)
FlatProfiles(data) ==
    IF data = <<>> THEN <<>>
    ELSE [j \in 1..Len(data[1].val.profiles) |->
             [source |-> data[1].key, profile |-> data[1].val.profiles[j]]]
         \o FlatProfiles(Tail(data))

\* the trimmed orcid of a profile of tag_data.json is not empty
HasOrcid(entry) ==
    /\ "orcid" \in DOMAIN entry.profile
    /\ IsStr(entry.profile["orcid"])
    /\ Strip(entry.profile["orcid"].v) # <<>>

RECURSIVE ClaimedTagRows(_)
ClaimedTagRows(entries) ==
    IF entries = <<>> THEN <<>>
    ELSE (IF HasOrcid(entries[1])
          THEN ClaimedEntryRows(Strip(entries[1].profile["orcid"].v),
                                entries[1].profile["tags"].v)
          ELSE <<>>)
         \o ClaimedTagRows(Tail(entries))

\* C3: tags.csv holds, for every profile with an ORCID and every tag entry
\* with an integer tag_id, one row per element of sub_id, whose sub_id column
\* is the integer of the conversion rule ("8.2" gives 2).
C3_TagRows ==
    FlattenerRan => tags_csv = ClaimedTagRows(FlatProfiles(tag_data))

\* the arguments of the call of convert_tag_to_ids
CallMaps == load_index(call.args[2])

\* the pairs of the tag list whose trimmed category name the category map has
KnownPairs ==
    SelectSeq(call.args[1],
              LAMBDA pair : /\ Len(pair.v) = 2
                            /\ Strip(pair.v[1].v) \in DOMAIN CallMaps.category_map)

\* the ids of the trimmed, non-empty, known names between the commas of s
ClaimedSubIds(s) ==
    LET pieces == Split(s, ",")
        names == SelectSeq([k \in 1..Len(pieces) |-> Strip(pieces[k])],
                           LAMBDA n : n # <<>> /\ n \in DOMAIN CallMaps.subcategory_map)
    IN  [k \in 1..Len(names) |-> CallMaps.subcategory_map[names[k]]]

ConvertReturned == stage = "returned" /\ call.fn = "convert_tag_to_ids"

\* C4: convert_tag_to_ids gives, in input order, one object per pair whose
\* category the category map has: tag_id is the mapped category id, sub_id
\* the mapped ids of the trimmed, non-empty, known subcategory names in order.
C4_ConvertTags ==
    ConvertReturned =>
        /\ Len(ret) = Len(KnownPairs)
        /\ \A j \in 1..Len(KnownPairs) :
              /\ JEq(ret[j].tag_id,
                     CallMaps.category_map[Strip(KnownPairs[j].v[1].v)])
              /\ IsList(ret[j].sub_id)
              /\ ret[j].sub_id.v = ClaimedSubIds(KnownPairs[j].v[2].v)

\* C4 witness: ["AI", "ML, NLP"] after a pair of an unknown category, with
\* AI = 3, ML = 1 and NLP = 2, gave the one object {tag_id: 3, sub_id: [1, 2]}
C4_Witness ==
    /\ ConvertReturned
    /\ Len(call.args[1]) = 2
    /\ call.args[1][1].v[1].v = <<"Z", "o", "o">>
    /\ call.args[1][2].v = <<Str(<<"A", "I">>), Str(<<"M", "L", ",", " ", "N", "L", "P">>)>>
    /\ ret = <<[tag_id |-> Num(3), sub_id |-> Lst(<<Num(1), Num(2)>>)]>>

\* C5: no profile of the resolver output has an empty, null or absent email,
\* and no source group of the output is without profiles.
C5_NoEmptyEmail ==
    ResolverRan =>
        \A i \in 1..Len(tag_data) :
           /\ Len(tag_data[i].val.profiles) > 0
           /\ \A j \in 1..Len(tag_data[i].val.profiles) :
                 LET profile == tag_data[i].val.profiles[j]
                 IN  /\ "email" \in DOMAIN profile
                     /\ ~IsNull(profile["email"])
                     /\ ~JEq(profile["email"], Str(<<>>))

\* C6: every profile of the resolver output has the key "tags" and none still
\* has the key "tag".
C6_TagReplaced ==
    ResolverRan =>
        \A i \in 1..Len(tag_data) :
           \A j \in 1..Len(tag_data[i].val.profiles) :
              LET profile == tag_data[i].val.profiles[j]
              IN  /\ "tags" \in DOMAIN profile
                  /\ IsList(profile["tags"])
                  /\ "tag" \notin DOMAIN profile

\* the profiles of tag_data.json that have an ORCID, in file order
ProductProfiles == SelectSeq(FlatProfiles(tag_data), HasOrcid)

\* C7: academic_products.csv holds one row per profile with an ORCID; its JSON
\* object holds the profile's fields other than orcid, introduction and the
\* tag data, and the name of the source group as "organization".
C7_ProductRows ==
    FlattenerRan =>
        /\ Len(academic_products) = Len(ProductProfiles)
        /\ \A i \in 1..Len(ProductProfiles) :
              LET profile == ProductProfiles[i].profile
                  object == academic_products[i].profiles
                  fields == DOMAIN profile \ {"orcid", "introduction", "tags", "tag"}
              IN  /\ academic_products[i].orcid = Strip(profile["orcid"].v)
                  /\ DOMAIN object = fields \cup {"organization"}
                  /\ JEq(object["organization"], Str(ProductProfiles[i].source))
                  /\ \A k \in fields \ {"organization"} : JEq(object[k], profile[k])

\* C10: no two rows of academic_products.csv carry the same orcid.
C10_UniqueOrcid ==
    FlattenerRan =>
        \A i, j \in 1..Len(academic_products) :
           i # j => academic_products[i].orcid # academic_products[j].orcid

EmailReturned == stage = "returned" /\ call.fn = "clean_email_field"

\* the text of the value handed to clean_email_field
CallEmailText == IF IsNull(call.args[1]) THEN <<>> ELSE call.args[1].v

\* s has a "." somewhere after an "@"
DotAfterAnAt(s) ==
    \E i, j \in 1..Len(s) : i < j /\ s[i] = "@" /\ s[j] = "."

\* s has a "." somewhere after its last "@"
DotAfterLastAt(s) ==
    \E i, j \in 1..Len(s) :
        /\ i < j /\ s[i] = "@" /\ s[j] = "."
        /\ \A k \in (i + 1)..Len(s) : s[k] # "@"

\* C8 as stated: clean_email_field returns the trimmed value exactly when the
\* value has an "@" and a "." somewhere after an "@", whatever the number of
\* "@", and "" for every other value.
C8_AnyAt ==
    EmailReturned =>
        ret = IF DotAfterAnAt(CallEmailText) THEN Strip(CallEmailText) ELSE <<>>

\* C8 as amended: clean_email_field returns the trimmed value exactly when the
\* value has a "." somewhere after its last "@", and "" for every other value.
C8_LastAt ==
    EmailReturned =>
        ret = IF DotAfterLastAt(CallEmailText) THEN Strip(CallEmailText) ELSE <<>>

\* C8 witness: a value with two "@" and blanks around it was accepted, trimmed
C8_Witness ==
    /\ EmailReturned
    /\ \E i, j \in 1..Len(CallEmailText) :
          i # j /\ CallEmailText[i] = "@" /\ CallEmailText[j] = "@"
    /\ ret # <<>>
    /\ Len(ret) < Len(CallEmailText)

TagReturned == stage = "returned" /\ call.fn = "clean_tag_field"

\* a list of two non-empty strings
WellFormedPair(g) ==
    /\ IsList(g)
    /\ Len(g.v) = 2
    /\ IsStr(g.v[1]) /\ g.v[1].v # <<>>
    /\ IsStr(g.v[2]) /\ g.v[2].v # <<>>

\* C9: clean_tag_field keeps exactly the well-formed pairs of the list,
\* unchanged and in input order.
C9_TagPairsKept ==
    (TagReturned /\ IsList(call.args[1])) =>
        /\ IsList(ret)
        /\ ret.v = SelectSeq(call.args[1].v, WellFormedPair)

----------------------------------------------------------------------------
(* The extractor. *)

ExtractorWrote == stage = "extracted" /\ ExtractedFile \in files

\* the entry the output holds for a source file: the entries of its key
EntriesOf(f) ==
    SelectSeq(extracted_data, LAMBDA e : e.key = Stem(f.name))

\* the files the extractor found and could read
ProcessedFiles ==
    {i \in 1..Len(source_dir) :
        /\ EndsWith(source_dir[i].name, JsonSuffix)
        /\ source_dir[i].content.kind # "malformed"}

\* C11: for every source file the extractor processes, the emitted entry has
\* extracted_items equal to the first min(EXTRACT_COUNT, total) elements of the
\* file's array, in order, and total_items >= the length of extracted_items;
\* a file whose top-level value is not an array gets total_items 0 and an
\* empty extracted_items.
C11_ExtractedItems ==
    ExtractorWrote =>
        \A i \in ProcessedFiles :
            LET f == source_dir[i]
                entries == EntriesOf(f)
            IN  /\ Len(entries) = 1
                /\ LET entry == entries[1].val
                       taken == entry.extracted_items
                   IN  IF f.content.kind = "array"
                       THEN LET array == f.content.items
                                total == Len(array)
                            IN  /\ Len(taken) =
                                       (IF EXTRACT_COUNT < total THEN EXTRACT_COUNT
                                        ELSE total)
                                /\ \A j \in 1..Len(taken) : taken[j] = array[j]
                                /\ IsNum(entry.total_items)
                                /\ entry.total_items.v >= Len(taken)
                       ELSE /\ entry.total_items = Num(0)
                            /\ taken = <<>>

\* the extractor wrote the entries of an array longer than EXTRACT_COUNT, with
\* two different items among the first, and of a file that holds no array
C11_Witness ==
    /\ ExtractorWrote
    /\ \E i \in ProcessedFiles :
          /\ source_dir[i].content.kind = "array"
          /\ Len(source_dir[i].content.items) > EXTRACT_COUNT
          /\ source_dir[i].content.items[1] # source_dir[i].content.items[2]
    /\ \E i \in ProcessedFiles : source_dir[i].content.kind = "object"
    /\ Len(extracted_data) = 2

----------------------------------------------------------------------------
(* Missing input. *)

\* what a script prints when it does not find its input
ErrorReports ==
    { <<"Error: ../tag_data directory not found!">>,
      <<"No JSON files found in ../tag_data">>,
      <<"Input file './output/extracted_data.json' not found!">>,
      <<"Error: Index file '../index/index_en.json' not found.">>,
      <<"Error: Input file './output/cleaned_data.json' not found.">>,
      <<"Input file './output/tag_data.json' not found!">> }

\* the script that takes the step reports and ends in an orderly way
ReportsAndEnds ==
    /\ console' \in ErrorReports
    /\ ended'.how \in {"returned", "sys.exit(1)"}

\* C12: when its input file is missing, each of the cleaner, the tag resolver
\* and the flattener reports the error and ends without an uncaught exception
\* and without creating or overwriting its output file(s); the same holds for
\* the extractor when the source directory is missing or holds no JSON file.
C12_MissingInput ==
    [][ /\ (ended'.script = "clean_data" /\ ExtractedFile \notin files)
            => ReportsAndEnds /\ UNCHANGED <<cleaned_data, files>>
        /\ (ended'.script = "tag_to_id_converter" /\ CleanedFile \notin files)
            => ReportsAndEnds /\ UNCHANGED <<tag_data, files>>
        /\ (ended'.script = "json_to_csv_for_pg" /\ TagDataFile \notin files)
            => ReportsAndEnds /\ UNCHANGED <<academic_products, tags_csv, files>>
        /\ (ended'.script = "extract_demo"
                /\ (TagDataDir \notin files \/ glob_json(source_dir) = <<>>))
            => ReportsAndEnds /\ UNCHANGED <<extracted_data, files>>
      ]_vars

\* the flattener ran without tag_data.json on a disk that holds the CSV files
\* of an earlier run
C12_Witness ==
    /\ ended.script = "json_to_csv_for_pg"
    /\ TagDataFile \notin files
    /\ console \in ErrorReports
    /\ ProductsCsv \in files /\ TagsCsv \in files
    /\ academic_products = StaleCsv.products
    /\ academic_products # <<>>

----------------------------------------------------------------------------
(* Subcategory ids and their categories. *)

\* the index document handed to the call
CallIndex == call.args[2]

\* does the index list a subcategory of this id under the category of this id
ListedUnder(index, tag_id, sub_id) ==
    \E c \in 1..Len(index) :
        /\ JEq(index[c].id, tag_id)
        /\ \E k \in 1..Len(index[c].subcategories) :
              JEq(index[c].subcategories[k].id, sub_id)

\* C13: every subcategory id the tag resolver emits belongs to the category
\* it is emitted under: each id in a resolved entry's sub_id list is the id of
\* a subcategory the index lists under the category whose id is the entry's
\* tag_id, also when the pair names a subcategory of another category.
C13_SubIdsOfCategory ==
    ConvertReturned =>
        \A j \in 1..Len(ret) :
            \A k \in 1..Len(ret[j].sub_id.v) :
                ListedUnder(CallIndex, ret[j].tag_id, ret[j].sub_id.v[k])

----------------------------------------------------------------------------
(* Key normalization. *)

\* the source groups of the input the cleaner left a profile of
SurvivingGroups ==
    {i \in 1..Len(extracted_data) :
        /\ "extracted_items" \in DOMAIN extracted_data[i].val
        /\ CleanProfiles(extracted_data[i].val["extracted_items"],
                         if_ignore_no_orcid) # <<>>}

\* the number of profiles the groups of a document hold
RECURSIVE ProfileCount(_)
ProfileCount(data) ==
    IF data = <<>> THEN 0
    ELSE Len(data[1].val.profiles) + ProfileCount(Tail(data))

\* C14: key normalization in the cleaner loses no data: each source group with
\* at least one surviving profile has its own entry in the cleaner output, so
\* the number of output groups equals the number of such input groups and the
\* output groups' profile counts add up to the 'Profiles cleaned' counter, with
\* total_profiles = cleaned_profiles + skipped_profiles; two input keys that
\* differ only by the trailing " tag" do not overwrite one another.
C14_NoGroupLost ==
    CleanerRan =>
        /\ Len(cleaned_data) = Cardinality(SurvivingGroups)
        /\ ProfileCount(cleaned_data) = stats.cleaned_profiles
        /\ stats.total_profiles = stats.cleaned_profiles + stats.skipped_profiles

====
